---------------------------- MODULE Spec2Model ----------------------------
(***************************************************************************)
(* A model of package blurhash (blurhash.go): Append, Encode, EncodedLen,  *)
(* the colorimetry table, the quantizer and the base-83 packer.            *)
(*                                                                         *)
(* float64 values are modelled in fixed point: a finite value v stands for *)
(* the real v / ONE, and every product and quotient is rounded to the      *)
(* nearest unit (ties away from zero), as IEEE arithmetic rounds to the    *)
(* nearest float.  NaN and the infinities are three values of their own,   *)
(* and propagate as IEEE prescribes.                                       *)
(***************************************************************************)
EXTENDS Integers, Sequences, FiniteSets

(***************************************************************************)
(* Bounds of the model.                                                    *)
(***************************************************************************)
\* image width and height range over 0..MaxImg
MaxImg == 3
\* the corner Bounds().Min ranges over (-MaxOff..MaxOff) x (-MaxOff..MaxOff)
MaxOff == 1
\* the caller's dst holds at most MaxDst bytes
MaxDst == 2

(***************************************************************************)
(* float64                                                                 *)
(***************************************************************************)
ONE == 2^10
NaN == 0 - 2^30
PosInf == 2^30
NegInf == 1 - 2^30

IsNaN(a) == a = NaN
IsInf(a) == a = PosInf \/ a = NegInf
IsFinite(a) == ~IsNaN(a) /\ ~IsInf(a)

AbsInt(n) == IF n < 0 THEN 0 - n ELSE n
SignOf(a) == IF a = NegInf \/ (a # PosInf /\ a < 0) THEN 0 - 1 ELSE 1
\* n / d rounded to the nearest integer, ties away from zero (d # 0)
RoundDiv(n, d) == SignOf(n) * SignOf(d) * ((AbsInt(n) + AbsInt(d) \div 2) \div AbsInt(d))

\* the float64 of integer n
FromInt(n) == n * ONE
\* the float64 nearest to the decimal constant n / d
Dec(n, d) == RoundDiv(n * ONE, d)

FNeg(a) ==
    IF IsNaN(a) THEN NaN
    ELSE IF a = PosInf THEN NegInf
    ELSE IF a = NegInf THEN PosInf
    ELSE 0 - a

FAdd(a, b) ==
    IF IsNaN(a) \/ IsNaN(b) THEN NaN
    ELSE IF IsInf(a) /\ IsInf(b) THEN (IF a = b THEN a ELSE NaN)
    ELSE IF IsInf(a) THEN a
    ELSE IF IsInf(b) THEN b
    ELSE a + b

FSub(a, b) == FAdd(a, FNeg(b))

FMul(a, b) ==
    IF IsNaN(a) \/ IsNaN(b) THEN NaN
    ELSE IF IsInf(a) \/ IsInf(b)
         THEN IF a = 0 \/ b = 0 THEN NaN
              ELSE IF SignOf(a) = SignOf(b) THEN PosInf ELSE NegInf
    ELSE RoundDiv(a * b, ONE)

FDiv(a, b) ==
    IF IsNaN(a) \/ IsNaN(b) THEN NaN
    ELSE IF IsInf(a) THEN (IF IsInf(b) THEN NaN
                           ELSE IF SignOf(a) = SignOf(b) THEN PosInf ELSE NegInf)
    ELSE IF IsInf(b) THEN 0
    ELSE IF b = 0 THEN (IF a = 0 THEN NaN ELSE IF a > 0 THEN PosInf ELSE NegInf)
    ELSE RoundDiv(a * ONE, b)

\* a <= b of float64: false whenever an operand is NaN
FLe(a, b) ==
    IF IsNaN(a) \/ IsNaN(b) THEN FALSE
    ELSE IF a = NegInf \/ b = PosInf THEN TRUE
    ELSE IF a = PosInf \/ b = NegInf THEN FALSE
    ELSE a <= b

\* math.Max, math.Min: NaN if either operand is NaN
MathMax(a, b) == IF IsNaN(a) \/ IsNaN(b) THEN NaN ELSE IF FLe(a, b) THEN b ELSE a
MathMin(a, b) == IF IsNaN(a) \/ IsNaN(b) THEN NaN ELSE IF FLe(a, b) THEN a ELSE b

MathAbs(a) == IF IsNaN(a) THEN NaN ELSE IF IsInf(a) THEN PosInf ELSE AbsInt(a)

\* math.Floor: the largest integral float64 not above a
MathFloor(a) == IF IsFinite(a) THEN (a \div ONE) * ONE ELSE a

\* the largest r in lo..hi with r * r <= n (lo * lo <= n)
RECURSIVE ISqrtIn(_, _, _)
ISqrtIn(n, lo, hi) ==
    IF lo >= hi THEN lo
    ELSE LET mid == (lo + hi + 1) \div 2
         IN  IF mid * mid <= n THEN ISqrtIn(n, mid, hi) ELSE ISqrtIn(n, lo, mid - 1)

\* the largest r in lo..hi with r * r * r <= n
RECURSIVE ICbrtIn(_, _, _)
ICbrtIn(n, lo, hi) ==
    IF lo >= hi THEN lo
    ELSE LET mid == (lo + hi + 1) \div 2
         IN  IF mid * mid * mid <= n THEN ICbrtIn(n, mid, hi) ELSE ICbrtIn(n, lo, mid - 1)

\* math.Sqrt, for 0 <= a < 2^21 units (NaN below zero)
MathSqrt(a) ==
    IF IsNaN(a) THEN NaN
    ELSE IF a = PosInf THEN PosInf
    ELSE IF a < 0 THEN NaN
    ELSE ISqrtIn(a * ONE, 0, 46340)

\* math.Copysign(m, s): the magnitude of m with the sign of s
MathCopysign(m, s) ==
    IF IsNaN(m) THEN NaN
    ELSE IF SignOf(s) < 0 /\ ~IsNaN(s) THEN FNeg(MathAbs(m)) ELSE MathAbs(m)

\* math.Pow(v, 1/2.4) for v in [0, 1]: v^(5/12) = v^(1/3) * v^(1/12)
PowInvGamma(v) ==
    IF IsNaN(v) THEN NaN
    ELSE LET c == ICbrtIn(v * ONE * ONE, 0, ONE)
             q == ISqrtIn(ISqrtIn(c * ONE, 0, ONE) * ONE, 0, ONE)
         IN  FMul(c, q)

(***************************************************************************)
(* math.Sincos, by range reduction to [0, pi/2] and the Taylor series.     *)
(***************************************************************************)
MathPi == Dec(314159, 100000)

\* sin and cos of x units, 0 <= 2 * x <= MathPi
TaylorSin(x) ==
    LET x2 == FMul(x, x)
        t4 == ONE - RoundDiv(x2, 72)
        t3 == ONE - RoundDiv(FMul(x2, t4), 42)
        t2 == ONE - RoundDiv(FMul(x2, t3), 20)
        t1 == ONE - RoundDiv(FMul(x2, t2), 6)
    IN  FMul(x, t1)

TaylorCos(x) ==
    LET x2 == FMul(x, x)
        t4 == ONE - RoundDiv(x2, 56)
        t3 == ONE - RoundDiv(FMul(x2, t4), 30)
        t2 == ONE - RoundDiv(FMul(x2, t3), 12)
    IN  ONE - RoundDiv(FMul(x2, t2), 2)

\* <<sin, cos>> of r units, 0 <= r <= MathPi
SincosHalf(r) ==
    IF 2 * r <= MathPi THEN <<TaylorSin(r), TaylorCos(r)>>
    ELSE <<TaylorSin(MathPi - r), 0 - TaylorCos(MathPi - r)>>

\* math.Sincos(a) = <<sin a, cos a>>
Sincos(a) ==
    IF ~IsFinite(a) THEN <<NaN, NaN>>
    ELSE LET r == a % (2 * MathPi)
         IN  IF r <= MathPi THEN SincosHalf(r)
             ELSE LET sc == SincosHalf(r - MathPi) IN <<0 - sc[1], 0 - sc[2]>>

(***************************************************************************)
(* Conversions of a float64 to an integer type.  Go leaves the result of   *)
(* converting a value the type cannot represent (here: NaN) to the         *)
(* implementation; a build is one of the two common choices.               *)
(***************************************************************************)
Builds == {"amd64", "arm64"}
\* stands for -2^63, the "integer indefinite" of amd64: negative and no multiple of 83
MinInt64 == 0 - 2147483647

\* int(f)
IntOfFloat(f, build) ==
    IF IsFinite(f) THEN SignOf(f) * (AbsInt(f) \div ONE)
    ELSE IF build = "amd64" THEN MinInt64 ELSE 0

\* uint8(f): the low byte of the converted integer
Uint8OfFloat(f, build) ==
    IF IsFinite(f) THEN (AbsInt(f) \div ONE) % 256 ELSE 0

\* Go's / and % on int truncate toward zero
GoDiv(a, b) == SignOf(a) * SignOf(b) * (AbsInt(a) \div AbsInt(b))
GoMod(a, b) == a - b * GoDiv(a, b)

(***************************************************************************)
(* Colorimetry                                                             *)
(***************************************************************************)
\* linearTable as buildLinearTable leaves it, each entry rounded to the nearest unit
linearTable ==
    <<
       0, 0, 1, 1, 1, 2, 2, 2, 2, 3, 3, 3, 4, 4, 4, 5,
       5, 6, 6, 7, 7, 8, 8, 9, 9, 10, 11, 11, 12, 13, 13, 14,
       15, 16, 16, 17, 18, 19, 20, 21, 22, 23, 24, 25, 26, 27, 28, 29,
       30, 31, 33, 34, 35, 36, 38, 39, 40, 42, 43, 45, 46, 48, 49, 51,
       52, 54, 56, 57, 59, 61, 63, 65, 66, 68, 70, 72, 74, 76, 78, 80,
       82, 84, 86, 89, 91, 93, 95, 98, 100, 102, 105, 107, 110, 112, 115, 117,
       120, 122, 125, 128, 130, 133, 136, 139, 142, 145, 148, 151, 154, 157, 160, 163,
       166, 169, 172, 176, 179, 182, 186, 189, 192, 196, 199, 203, 206, 210, 214, 217,
       221, 225, 229, 232, 236, 240, 244, 248, 252, 256, 260, 264, 269, 273, 277, 281,
       286, 290, 294, 299, 303, 308, 312, 317, 322, 326, 331, 336, 340, 345, 350, 355,
       360, 365, 370, 375, 380, 385, 390, 396, 401, 406, 412, 417, 422, 428, 433, 439,
       445, 450, 456, 462, 467, 473, 479, 485, 491, 497, 503, 509, 515, 521, 527, 533,
       540, 546, 552, 559, 565, 572, 578, 585, 591, 598, 605, 612, 618, 625, 632, 639,
       646, 653, 660, 667, 674, 681, 689, 696, 703, 711, 718, 725, 733, 740, 748, 756,
       763, 771, 779, 787, 794, 802, 810, 818, 826, 834, 843, 851, 859, 867, 876, 884,
       892, 901, 909, 918, 926, 935, 944, 952, 961, 970, 979, 988, 997, 1006, 1015, 1024
    >>

\* sRGB.linear
Linear(value) == linearTable[value + 1]

\* clamp without its upper limit
clamp_NoUpper(min, max, x) == MathMax(min, x)

clamp(min, max, x) == MathMax(min, MathMin(max, x))

\* linear.sRGB
LinearToSRGB(value, build) ==
    LET v == clamp(0, ONE, value)
    IN  IF FLe(v, Dec(31308, 10000000))
        THEN Uint8OfFloat(clamp(0, FromInt(255),
                 FAdd(FMul(FMul(v, Dec(1292, 100)), FromInt(255)), Dec(5, 10))), build)
        ELSE Uint8OfFloat(
                 FAdd(FMul(clamp(0, FromInt(255),
                               FSub(FMul(Dec(1055, 1000), PowInvGamma(v)), Dec(55, 1000))),
                           FromInt(255)),
                      Dec(5, 10)), build)

signSqrt(value) == MathCopysign(MathSqrt(MathAbs(value)), value)

(***************************************************************************)
(* factor                                                                  *)
(***************************************************************************)
ZeroFactor == [r |-> 0, g |-> 0, b |-> 0]

\* Scale adding v instead of multiplying by it
Scale_Adds(f, v) == [r |-> FAdd(f.r, v), g |-> FAdd(f.g, v), b |-> FAdd(f.b, v)]

\* factor.Scale
Scale(f, v) == [r |-> FMul(f.r, v), g |-> FMul(f.g, v), b |-> FMul(f.b, v)]

encodeDC(dc, build) ==
    LET roundedR == LinearToSRGB(dc.r, build)
        roundedG == LinearToSRGB(dc.g, build)
        roundedB == LinearToSRGB(dc.b, build)
    IN  roundedR * 2^16 + roundedG * 2^8 + roundedB

\* one channel's digit of encodeAC
quantAC(c, max, build) ==
    IntOfFloat(clamp(0, FromInt(18),
        MathFloor(FAdd(FMul(signSqrt(FDiv(c, max)), FromInt(9)), Dec(95, 10)))), build)

encodeAC(ac, max, build) ==
    LET quantR == quantAC(ac.r, max, build)
        quantG == quantAC(ac.g, max, build)
        quantB == quantAC(ac.b, max, build)
    IN  quantR * (19 * 19) + quantG * 19 + quantB

\* EncodedLen counting two bytes for the DC term as well
EncodedLen_CountsDC(w, h) == 1 + 1 + 4 + (w * h) * 2

EncodedLen(w, h) ==
    LET packedShapeBytes == 1
        maxValueBytes == 1
        dcBytes == 4
        acBytes == (w * h - 1) * 2
    IN  packedShapeBytes + maxValueBytes + dcBytes + acBytes

(***************************************************************************)
(* Base83 packer.  A buffer is a sequence of bytes; PANIC is the outcome   *)
(* of a call that stopped with a run-time panic (index out of range).      *)
(***************************************************************************)
base83chars ==
    <<
       48, 49, 50, 51, 52, 53, 54, 55, 56, 57, 65, 66, 67, 68, 69, 70,
       71, 72, 73, 74, 75, 76, 77, 78, 79, 80, 81, 82, 83, 84, 85, 86,
       87, 88, 89, 90, 97, 98, 99, 100, 101, 102, 103, 104, 105, 106, 107, 108,
       109, 110, 111, 112, 113, 114, 115, 116, 117, 118, 119, 120, 121, 122, 35, 36,
       37, 42, 43, 44, 45, 46, 58, 59, 61, 63, 64, 91, 93, 94, 95, 123,
       124, 125, 126
    >>

PANIC == <<0 - 1>>

append1Base83(dst, v) ==
    IF dst = PANIC THEN PANIC
    ELSE IF GoMod(v, 83) < 0 THEN PANIC
    ELSE Append(dst, base83chars[GoMod(v, 83) + 1])

\* append2Base83 writing the least significant digit first
append2Base83_LittleEndian(dst, v) == append1Base83(append1Base83(dst, v), GoDiv(v, 83))

append2Base83(dst, v) == append1Base83(append1Base83(dst, GoDiv(v, 83)), v)

append4Base83(dst, v) == append2Base83(append2Base83(dst, GoDiv(v, 83 * 83)), v)

rotate(sinA, cosA, sinB, cosB) ==
    <<FAdd(FMul(sinA, cosB), FMul(cosA, sinB)), FSub(FMul(cosA, cosB), FMul(sinA, sinB))>>

(***************************************************************************)
(* Images.  An image is [kind, minX, minY, maxX, maxY, pat]: its dynamic   *)
(* type ("NRGBA" is *image.NRGBA as image.NewNRGBA allocates it, "generic" *)
(* any other image.Image), its Bounds() and the pattern colouring it.      *)
(***************************************************************************)
Kinds == {"generic", "NRGBA"}
Patterns == {"black", "white", "gray", "orange", "checker", "stripe", "ramp"}
Solid == {"black", "white", "gray", "orange"}

\* the 8-bit, opaque <<R, G, B>> of the pixel at (x, y)
PatternColor(pat, x, y) ==
    CASE pat = "black" -> <<0, 0, 0>>
      [] pat = "white" -> <<255, 255, 255>>
      [] pat = "gray" -> <<128, 128, 128>>
      [] pat = "orange" -> <<255, 128, 0>>
      [] pat = "checker" -> IF (x + y) % 2 = 0 THEN <<255, 255, 255>> ELSE <<0, 0, 0>>
      [] pat = "stripe" -> IF x % 2 = 1 THEN <<255, 255, 255>> ELSE <<0, 0, 0>>
      [] pat = "ramp" -> <<(x % 4) * 85, (y % 4) * 85, 255 - (x % 4) * 85>>

\* image.Rectangle.Dx, Dy
Dx(img) == img.maxX - img.minX
Dy(img) == img.maxY - img.minY

\* (x, y) lies in img.Bounds()
InBounds(img, x, y) ==
    /\ img.minX <= x /\ x < img.maxX
    /\ img.minY <= y /\ y < img.maxY

\* color.Color.RGBA of an opaque 8-bit colour: each sample is c * 0x101
RGBA16(c) == <<c[1] * 257, c[2] * 257, c[3] * 257>>

\* img.At(x, y).RGBA(): the pixel, or the zero colour outside the bounds
At(img, x, y) ==
    IF InBounds(img, x, y) THEN RGBA16(PatternColor(img.pat, x, y)) ELSE <<0, 0, 0>>

\* image.NRGBA: Stride, len(Pix), PixOffset
Stride(img) == 4 * Dx(img)
PixLen(img) == 4 * Dx(img) * Dy(img)
PixOffset(img, x, y) == (y - img.minY) * Stride(img) + (x - img.minX) * 4

\* the pixel stored at Pix[i : i+4]
PixColor(img, i) ==
    PatternColor(img.pat, img.minX + ((i \div 4) % Dx(img)), img.minY + ((i \div 4) \div Dx(img)))

\* the accessor fastAccessor(img) returns, applied to (x, y):
\* [panic |-> it stopped with a slice-bounds panic, rgb |-> the three 16-bit samples]
fastAt(img, x, y) ==
    IF img.kind = "NRGBA"
    THEN LET i == PixOffset(img, x, y)
         IN  IF i < 0 \/ i + 4 > PixLen(img)
             THEN [panic |-> TRUE, rgb |-> <<0, 0, 0>>]
             ELSE [panic |-> FALSE, rgb |-> RGBA16(PixColor(img, i))]
    ELSE [panic |-> FALSE, rgb |-> At(img, x, y)]

\* sRGB((p >> 8) & 0xff).linear()
SampleLinear(p) == Linear((p \div 256) % 256)

(***************************************************************************)
(* The state of one call.                                                  *)
(***************************************************************************)
\* make([]float64, 9), make([]factor, 81)
MaxComp == 9
MaxFactors == 81

VARIABLES
    args,       \* the call: [op, dst, cap, img, w, h, build]
    pc,         \* where the call is
    dst,        \* Append's dst
    factors,    \* factors, then dc (factors[0], copied) and ac (factors[1:])
    dc,
    yCos, ySin, yRotCos, yRotSin,
    xCos, xSin, xRotCos, xRotSin,
    x, y,       \* the pixel loop's counters
    yTurns,     \* per index i, the rotations of (ySin[i], yCos[i]) since its last reset
    xTurns,     \* per index j, the rotations of (xSin[j], xCos[j]) since its last reset
    calls,      \* the coordinates the accessor was called with, in order
    quantisedMax, max,
    ret,        \* the value returned
    cap         \* cap(dst) as Append received it

vars == <<args, pc, dst, factors, dc, yCos, ySin, yRotCos, yRotSin, xCos, xSin,
          xRotCos, xRotSin, x, y, yTurns, xTurns, calls, quantisedMax, max, ret, cap>>

trig == <<yCos, ySin, yRotCos, yRotSin, xCos, xSin, xRotCos, xRotSin, yTurns, xTurns>>
yTrig == <<yCos, ySin, yTurns>>
xTrig == <<xCos, xSin, xTurns>>
rots == <<yRotCos, yRotSin, xRotCos, xRotSin>>
packed == <<quantisedMax, max, ret>>

img == args.img
w == args.w
h == args.h
imgW == Dx(img)
imgH == Dy(img)

build == args.build

(***************************************************************************)
(* Encode, lines 119-122: make([]byte, 0, EncodedLen(w, h)) panics on a    *)
(* negative capacity; otherwise Append runs on the empty buffer.           *)
(***************************************************************************)
EncodeCall ==
    /\ pc = "Encode"
    /\ \/ /\ EncodedLen(w, h) < 0
          /\ pc' = "panic"
          /\ UNCHANGED <<dst, cap>>
       \/ /\ EncodedLen(w, h) >= 0
          /\ pc' = "Append"
          /\ dst' = <<>>
          /\ cap' = EncodedLen(w, h)
    /\ UNCHANGED <<args, factors, dc, trig, rots, x, y, calls, packed>>

(***************************************************************************)
(* Append, lines 28-53: the slices and the per-step rotations.             *)
(***************************************************************************)
\* s[:n] of a slice of capacity c panics unless 0 <= n <= c
SliceOK(n, c) == 0 <= n /\ n <= c

SetupOK == SliceOK(w * h, MaxFactors) /\ SliceOK(h, MaxComp) /\ SliceOK(w, MaxComp)

piW == FDiv(MathPi, FromInt(imgW))
piH == FDiv(MathPi, FromInt(imgH))

\* math.Sincos(pi * float64(k)) for index k
RotOf(pi, k) == Sincos(FMul(pi, FromInt(k)))

AppendSetup ==
    /\ pc = "Append"
    /\ \/ /\ ~SetupOK
          /\ pc' = "panic"
          /\ UNCHANGED <<factors, trig, rots, x, y>>
       \/ /\ SetupOK
          /\ pc' = "row"
          /\ factors' = [k \in 1..(w * h) |-> ZeroFactor]
          /\ yCos' = [i \in 1..h |-> 0]
          /\ ySin' = [i \in 1..h |-> 0]
          /\ yRotSin' = [i \in 1..h |-> RotOf(piH, i - 1)[1]]
          /\ yRotCos' = [i \in 1..h |-> RotOf(piH, i - 1)[2]]
          /\ xCos' = [j \in 1..w |-> 0]
          /\ xSin' = [j \in 1..w |-> 0]
          /\ xRotSin' = [j \in 1..w |-> RotOf(piW, j - 1)[1]]
          /\ xRotCos' = [j \in 1..w |-> RotOf(piW, j - 1)[2]]
          /\ yTurns' = [i \in 1..h |-> 0]
          /\ xTurns' = [j \in 1..w |-> 0]
          /\ x' = 0
          /\ y' = 0
    /\ UNCHANGED <<args, dst, dc, calls, packed, cap>>

(***************************************************************************)
(* Lines 54-61: entering row y.                                            *)
(***************************************************************************)
\* the reset at the first row or column forgotten
Resets_IndexOnly(p, k) == k = 0

\* the pair of index k is reset at position p (a row y or a column x)
Resets(p, k) == p = 0 \/ k = 0

RowStep ==
    /\ pc = "row"
    /\ y < imgH
    /\ ySin' = [i \in 1..h |-> IF Resets(y, i - 1) THEN 0
                               ELSE rotate(ySin[i], yCos[i], yRotSin[i], yRotCos[i])[1]]
    /\ yCos' = [i \in 1..h |-> IF Resets(y, i - 1) THEN ONE
                               ELSE rotate(ySin[i], yCos[i], yRotSin[i], yRotCos[i])[2]]
    /\ yTurns' = [i \in 1..h |-> IF Resets(y, i - 1) THEN 0 ELSE yTurns[i] + 1]
    /\ x' = 0
    /\ pc' = "col"
    /\ UNCHANGED <<args, dst, factors, dc, xTrig, rots, y, calls, packed, cap>>

(***************************************************************************)
(* Lines 62-84: pixel (x, y).                                              *)
(***************************************************************************)
\* factors[i*w+j] += basis * (r, g, b)
Accumulate(f, basis, lin) ==
    [r |-> FAdd(f.r, FMul(basis, lin[1])),
     g |-> FAdd(f.g, FMul(basis, lin[2])),
     b |-> FAdd(f.b, FMul(basis, lin[3]))]

PixelStep ==
    /\ pc = "col"
    /\ x < imgW
    /\ xSin' = [j \in 1..w |-> IF Resets(x, j - 1) THEN 0
                               ELSE rotate(xSin[j], xCos[j], xRotSin[j], xRotCos[j])[1]]
    /\ xCos' = [j \in 1..w |-> IF Resets(x, j - 1) THEN ONE
                               ELSE rotate(xSin[j], xCos[j], xRotSin[j], xRotCos[j])[2]]
    /\ xTurns' = [j \in 1..w |-> IF Resets(x, j - 1) THEN 0 ELSE xTurns[j] + 1]
    /\ calls' = Append(calls, <<x, y>>)
    /\ LET p == fastAt(img, x, y)
           lin == <<SampleLinear(p.rgb[1]), SampleLinear(p.rgb[2]), SampleLinear(p.rgb[3])>>
       IN  \/ /\ p.panic
              /\ pc' = "panic"
              /\ UNCHANGED <<factors, x>>
           \/ /\ ~p.panic
              /\ factors' = [k \in 1..(w * h) |->
                               Accumulate(factors[k],
                                          FMul(yCos[((k - 1) \div w) + 1], xCos'[((k - 1) % w) + 1]),
                                          lin)]
              /\ x' = x + 1
              /\ pc' = "col"
    /\ UNCHANGED <<args, dst, dc, yTrig, rots, y, packed, cap>>

\* line 62: the row is done
RowEnd ==
    /\ pc = "col"
    /\ x >= imgW
    /\ y' = y + 1
    /\ pc' = "row"
    /\ UNCHANGED <<args, dst, factors, dc, trig, rots, x, calls, packed, cap>>

(***************************************************************************)
(* Lines 87-93: dc is a scaled copy of factors[0]; ac = factors[1:] is     *)
(* scaled in place.                                                        *)
(***************************************************************************)
ScaleStep ==
    /\ pc = "row"
    /\ y >= imgH
    /\ \/ /\ Len(factors) = 0
          /\ pc' = "panic"
          /\ UNCHANGED <<factors, dc>>
       \/ /\ Len(factors) > 0
          /\ dc' = Scale(factors[1], FDiv(FromInt(1), FromInt(imgH * imgW)))
          /\ factors' = [k \in 1..Len(factors) |->
                           IF k = 1 THEN factors[1]
                           ELSE Scale(factors[k], FDiv(FromInt(2), FromInt(imgH * imgW)))]
          /\ pc' = "pack"
    /\ UNCHANGED <<args, dst, trig, rots, x, y, calls, packed, cap>>

(***************************************************************************)
(* Lines 95-116: the output.                                               *)
(***************************************************************************)
\* the packed shape with w and h exchanged
packedShape_Swapped == (w - 1) * 9 + (h - 1)

packedShape == (h - 1) * 9 + (w - 1)

\* lines 99-104 over ac[lo..hi]; math.Max is associative and commutative (NaN
\* absorbing), so the halves may be folded apart
RECURSIVE ActualMax(_, _, _)
ActualMax(ac, lo, hi) ==
    IF lo > hi THEN 0
    ELSE IF lo = hi
         THEN LET f == ac[lo]
                  m1 == MathMax(MathAbs(f.r), 0)
                  m2 == MathMax(MathAbs(f.g), m1)
              IN  MathMax(MathAbs(f.b), m2)
    ELSE LET mid == (lo + hi) \div 2
         IN  MathMax(ActualMax(ac, mid + 1, hi), ActualMax(ac, lo, mid))

\* line 105
QuantisedMax(ac) ==
    IntOfFloat(clamp(0, FromInt(82),
        MathFloor(FSub(FMul(ActualMax(ac, 1, Len(ac)), FromInt(166)), Dec(5, 10)))), build)

\* lines 113-115 for ac[lo..hi], in order
RECURSIVE AppendAC(_, _, _, _, _)
AppendAC(d, ac, m, lo, hi) ==
    IF lo > hi \/ d = PANIC THEN d
    ELSE IF lo = hi THEN append2Base83(d, encodeAC(ac[lo], m, build))
    ELSE LET mid == (lo + hi) \div 2
         IN  AppendAC(AppendAC(d, ac, m, lo, mid), ac, m, mid + 1, hi)

\* lines 97-111: the scale digit and max
ScaleDigit(ac) == IF Len(ac) > 0 THEN QuantisedMax(ac) ELSE 0
MaxOf(ac, q) == IF Len(ac) > 0 THEN FDiv(FromInt(q + 1), FromInt(166)) ELSE FromInt(1)

\* Append writing from the start of the buffer (dst = dst[:0]) instead of its end
Packed_Truncates(d) ==
    LET ac == Tail(factors)
        q == ScaleDigit(ac)
        d1 == append1Base83(<<>>, packedShape)
        d2 == append1Base83(d1, q)
        d3 == append4Base83(d2, encodeDC(dc, build))
    IN  AppendAC(d3, ac, MaxOf(ac, q), 1, Len(ac))

\* lines 96-115: what Append appends to d
Packed(d) ==
    LET ac == Tail(factors)
        q == ScaleDigit(ac)
        d1 == append1Base83(d, packedShape)
        d2 == append1Base83(d1, q)
        d3 == append4Base83(d2, encodeDC(dc, build))
    IN  AppendAC(d3, ac, MaxOf(ac, q), 1, Len(ac))

PackStep ==
    /\ pc = "pack"
    /\ \/ /\ Packed(dst) = PANIC
          /\ pc' = "panic"
          /\ UNCHANGED <<dst, packed>>
       \/ /\ Packed(dst) # PANIC
          /\ pc' = "done"
          /\ dst' = Packed(dst)
          /\ ret' = Packed(dst)
          /\ quantisedMax' = ScaleDigit(Tail(factors))
          /\ max' = MaxOf(Tail(factors), ScaleDigit(Tail(factors)))
    /\ UNCHANGED <<args, factors, dc, trig, rots, x, y, calls, cap>>

Next ==
    \/ EncodeCall
    \/ AppendSetup
    \/ RowStep
    \/ PixelStep
    \/ RowEnd
    \/ ScaleStep
    \/ PackStep

(***************************************************************************)
(* The calls checked.                                                      *)
(***************************************************************************)
Image(kind, minX, minY, width, height, pat) ==
    [kind |-> kind, minX |-> minX, minY |-> minY,
     maxX |-> minX + width, maxY |-> minY + height, pat |-> pat]

Call(op, d, c, i, cw, ch, b) ==
    [op |-> op, dst |-> d, cap |-> c, img |-> i, w |-> cw, h |-> ch, build |-> b]

\* the byte strings of at most n bytes over '0' and '~'
RECURSIVE Buffers(_)
Buffers(n) ==
    IF n = 0 THEN {<<>>}
    ELSE Buffers(n - 1) \cup {Append(d, c) : d \in {e \in Buffers(n - 1) : Len(e) = n - 1},
                                           c \in {48, 126}}

\* every count from one below the valid range to one above it, on two small images
CallsByCount ==
    {Call(op, <<>>, 0, i, cw, ch, "amd64") :
        op \in {"Encode", "Append"},
        i \in {Image("generic", 0, 0, 1, 1, "white"), Image("NRGBA", 0, 0, 2, 1, "ramp")},
        cw \in (0 - 1)..(MaxComp + 1), ch \in (0 - 1)..(MaxComp + 1)}

\* every image of non-zero size at the origin, of either type and every pattern
CallsByImage ==
    {Call(op, <<>>, 0, Image(k, 0, 0, iw, ih, p), cw, ch, "amd64") :
        op \in {"Encode", "Append"}, k \in Kinds, iw \in 1..MaxImg, ih \in 1..MaxImg, p \in Patterns,
        cw \in 1..3, ch \in 1..3}

\* images with a zero dimension, on either build
CallsByEmpty ==
    {Call(op, <<>>, 0, Image(k, 0, 0, d[1], d[2], "white"), cw, ch, b) :
        op \in {"Encode", "Append"}, k \in Kinds,
        d \in {e \in (0..MaxImg) \X (0..MaxImg) : e[1] = 0 \/ e[2] = 0},
        cw \in 0..2, ch \in 0..2, b \in Builds}

\* images whose Bounds().Min is any corner near the origin
CallsByOrigin ==
    {Call("Append", <<>>, 0, Image(k, mx, my, iw, ih, p), cw, ch, "amd64") :
        k \in Kinds, mx \in (0 - MaxOff)..MaxOff, my \in (0 - MaxOff)..MaxOff,
        iw \in 1..MaxImg, ih \in 1..MaxImg, p \in {"white", "ramp"},
        cw \in 1..2, ch \in 1..2}

\* every caller's buffer, full or with spare capacity
CallsByBuffer ==
    {Call("Append", d, Len(d) + spare, Image("generic", 0, 0, 2, 2, "ramp"), c[1], c[2], "amd64") :
        d \in Buffers(MaxDst), spare \in {0, 6},
        c \in {<<1, 1>>, <<2, 1>>, <<2, 2>>}}

Calls == CallsByCount \cup CallsByImage \cup CallsByEmpty \cup CallsByOrigin \cup CallsByBuffer

Init ==
    /\ args \in Calls
    /\ pc = args.op
    /\ dst = args.dst
    /\ cap = args.cap
    /\ factors = <<>>
    /\ dc = ZeroFactor
    /\ yCos = <<>> /\ ySin = <<>> /\ yRotCos = <<>> /\ yRotSin = <<>>
    /\ xCos = <<>> /\ xSin = <<>> /\ xRotCos = <<>> /\ xRotSin = <<>>
    /\ x = 0 /\ y = 0
    /\ yTurns = <<>> /\ xTurns = <<>>
    /\ calls = <<>>
    /\ quantisedMax = 0 /\ max = 0
    /\ ret = <<>>

Spec == Init /\ [][Next]_vars

(***************************************************************************)
(* The packer alone: one call of append1Base83, append2Base83 or           *)
(* append4Base83 on a value its digits can hold.                           *)
(***************************************************************************)
\* 83^n
RECURSIVE Pow83(_)
Pow83(n) == IF n = 0 THEN 1 ELSE 83 * Pow83(n - 1)

\* values spread over 0 .. 83^4 - 1, with the ends of every digit's range
Values4 ==
    {k * 83 * 83 * 83 + k * 83 * 83 + m * 83 + (82 - m) : k \in {0, 1, 41, 82}, m \in 0..82}
    \cup {k * 2^16 + k * 2^8 + k : k \in 0..255}
    \cup {Pow83(n) - 1 : n \in 1..4} \cup {Pow83(n) : n \in 0..3}

PackCalls ==
    {[op |-> "append1Base83", n |-> 1, dst |-> d, v |-> v] : d \in Buffers(MaxDst), v \in 0..82}
    \cup {[op |-> "append2Base83", n |-> 2, dst |-> d, v |-> v] :
             d \in {<<>>}, v \in 0..(83 * 83 - 1)}
    \cup {[op |-> "append4Base83", n |-> 4, dst |-> d, v |-> v] : d \in {<<>>, <<126>>}, v \in Values4}

InitPack ==
    /\ args \in PackCalls
    /\ pc = args.op
    /\ dst = args.dst
    /\ cap = Len(args.dst)
    /\ factors = <<>>
    /\ dc = ZeroFactor
    /\ yCos = <<>> /\ ySin = <<>> /\ yRotCos = <<>> /\ yRotSin = <<>>
    /\ xCos = <<>> /\ xSin = <<>> /\ xRotCos = <<>> /\ xRotSin = <<>>
    /\ x = 0 /\ y = 0
    /\ yTurns = <<>> /\ xTurns = <<>>
    /\ calls = <<>>
    /\ quantisedMax = 0 /\ max = 0
    /\ ret = <<>>

Pack1 ==
    /\ pc = "append1Base83"
    /\ ret' = append1Base83(dst, args.v)
    /\ pc' = "packed"
    /\ UNCHANGED <<args, dst, factors, dc, trig, rots, x, y, calls, quantisedMax, max, cap>>

Pack2 ==
    /\ pc = "append2Base83"
    /\ ret' = append2Base83(dst, args.v)
    /\ pc' = "packed"
    /\ UNCHANGED <<args, dst, factors, dc, trig, rots, x, y, calls, quantisedMax, max, cap>>

Pack4 ==
    /\ pc = "append4Base83"
    /\ ret' = append4Base83(dst, args.v)
    /\ pc' = "packed"
    /\ UNCHANGED <<args, dst, factors, dc, trig, rots, x, y, calls, quantisedMax, max, cap>>

NextPack == Pack1 \/ Pack2 \/ Pack4

SpecPack == InitPack /\ [][NextPack]_vars

(***************************************************************************)
(* Properties.                                                             *)
(***************************************************************************)
ValidCounts == w \in 1..MaxComp /\ h \in 1..MaxComp
NonEmptyImage == imgW >= 1 /\ imgH >= 1
ValidCall == ValidCounts /\ NonEmptyImage

\* the k-th of the bytes appended to the caller's buffer
Out(k) == ret[Len(args.dst) + k]
\* the alphabet's symbol of digit d
Sym(d) == base83chars[d + 1]
\* the digit a symbol stands for
Base83Index(c) == CHOOSE i \in 0..82 : base83chars[i + 1] = c
\* the k-th of the n big-endian base-83 digits of v
DigitOf(v, n, k) == (v \div Pow83(n - k)) % 83
\* the integer a string of symbols stands for, most significant first
RECURSIVE DecodeBase83(_)
DecodeBase83(bytes) ==
    IF bytes = <<>> THEN 0
    ELSE 83 * DecodeBase83(SubSeq(bytes, 1, Len(bytes) - 1)) + Base83Index(bytes[Len(bytes)])

\* C1: the string Encode returns for a valid call has exactly
\* EncodedLen(w, h) = 1 + 1 + 4 + 2 * (w * h - 1) bytes, which is the capacity
\* Encode allocated: the buffer is filled exactly, never regrown.
C1_EncodeFillsBuffer ==
    (pc = "done" /\ args.op = "Encode" /\ ValidCall) =>
        /\ Len(ret) = 1 + 1 + 4 + 2 * (w * h - 1)
        /\ Len(ret) = EncodedLen(w, h)
        /\ Len(ret) = cap

C1_Witness ==
    /\ pc = "done" /\ args.op = "Encode" /\ w = 9 /\ h = 9
    /\ imgW = 2 /\ Len(ret) = 166

\* C5: Append returns the caller's bytes unchanged, followed by exactly the
\* bytes it appends to an empty buffer (those of Encode on the same image and
\* counts), whatever the buffer held and whatever its spare capacity.
C5_AppendKeepsPrefix ==
    (pc = "done" /\ ValidCall) =>
        /\ SubSeq(ret, 1, Len(args.dst)) = args.dst
        /\ SubSeq(ret, Len(args.dst) + 1, Len(ret)) = Packed(<<>>)
        /\ Len(ret) = Len(args.dst) + EncodedLen(w, h)

C5_Witness ==
    /\ pc = "done" /\ args.op = "Append" /\ args.dst = <<126, 48>> /\ cap = 8
    /\ w = 2 /\ h = 2 /\ Len(ret) = 14

\* C6: the output is, in this order, one digit for the packed shape
\* (h-1)*9 + (w-1), which lies in 0..80, one digit for the quantized scale, four
\* digits for the DC value and two digits for each AC coefficient in accumulator
\* order 1 .. w*h-1.
C6_Layout ==
    (pc = "done" /\ ValidCall) =>
        /\ Len(ret) = Len(args.dst) + 6 + 2 * (w * h - 1)
        /\ (h - 1) * 9 + (w - 1) \in 0..80
        /\ Out(1) = Sym((h - 1) * 9 + (w - 1))
        /\ Out(2) = Sym(quantisedMax)
        /\ \A k \in 1..4 : Out(2 + k) = Sym(DigitOf(encodeDC(dc, build), 4, k))
        /\ \A n \in 1..(w * h - 1) : \A k \in 1..2 :
              Out(6 + 2 * (n - 1) + k) = Sym(DigitOf(encodeAC(factors[n + 1], max, build), 2, k))

C6_Witness ==
    /\ pc = "done" /\ w = 9 /\ h = 9 /\ imgW = 2
    /\ Out(1) = Sym(80)

\* C7: in a valid call every integer handed to the packer fits its digits: the
\* scale index is in 0..82, each AC channel digit in 0..18 and the combined AC
\* value in 0..6858, the DC value in 0..2^24-1; the digits written stand for
\* exactly these values, none reduced modulo 83^N.
C7_ValuesFit ==
    (pc = "done" /\ ValidCall) =>
        /\ quantisedMax \in 0..82
        /\ DecodeBase83(<<Out(2)>>) = quantisedMax
        /\ encodeDC(dc, build) \in 0..(2^24 - 1)
        /\ 2^24 - 1 < Pow83(4)
        /\ DecodeBase83(<<Out(3), Out(4), Out(5), Out(6)>>) = encodeDC(dc, build)
        /\ \A n \in 1..(w * h - 1) :
              LET ac == factors[n + 1]
              IN  /\ quantAC(ac.r, max, build) \in 0..18
                  /\ quantAC(ac.g, max, build) \in 0..18
                  /\ quantAC(ac.b, max, build) \in 0..18
                  /\ encodeAC(ac, max, build) \in 0..6858
                  /\ 6858 < Pow83(2)
                  /\ DecodeBase83(<<Out(6 + 2 * n - 1), Out(6 + 2 * n)>>) = encodeAC(ac, max, build)

\* both clamps of the quantizer act: the scale at 82, an AC digit at 18 and one at 0
C7_Witness ==
    /\ pc = "done" /\ ValidCall
    /\ quantisedMax = 82
    /\ \E n \in 2..Len(factors) : quantAC(factors[n].r, max, build) = 18
    /\ \E n \in 2..Len(factors) : quantAC(factors[n].r, max, build) = 0
    /\ encodeDC(dc, build) > 2^23
\* C2: a call whose w or h lies outside 1..9 is rejected before any pixel is
\* sampled, any coefficient accumulated or any byte appended, and returns nothing.
C2_RejectsInvalidCounts ==
    (~ValidCounts) =>
        /\ calls = <<>>
        /\ \A n \in 1..Len(factors) : factors[n] = ZeroFactor
        /\ dst = args.dst
        /\ pc # "done"

\* C3: a call on an image of zero width or height is rejected: no coefficient is
\* scaled by the quotient of a division by zero, none is quantized, and no hash
\* bytes are returned.
C3_RejectsEmptyImage ==
    (ValidCounts /\ ~NonEmptyImage) =>
        /\ IsFinite(dc.r) /\ IsFinite(dc.g) /\ IsFinite(dc.b)
        /\ \A n \in 1..Len(factors) : IsFinite(factors[n].r)
        /\ pc # "done"
        /\ ret = <<>>

\* the pixels of img.Bounds()
PixelsOf(i) == {<<px, py>> : px \in i.minX..(i.maxX - 1), py \in i.minY..(i.maxY - 1)}

\* C10: on an image of non-zero size, every coordinate passed to the accessor
\* lies inside img.Bounds(), no pixel is passed twice, and once the loop is over
\* every pixel of the bounds has been passed exactly once.
C10_AccessorInBounds ==
    NonEmptyImage =>
        /\ \A k \in 1..Len(calls) : InBounds(img, calls[k][1], calls[k][2])
        /\ \A k, l \in 1..Len(calls) : calls[k] = calls[l] => k = l
        /\ pc \in {"pack", "done"} => {calls[k] : k \in 1..Len(calls)} = PixelsOf(img)

\* the colour of a solid image
SolidColor == PatternColor(img.pat, 0, 0)

\* C4, as claimed: for a solid image every scaled AC coefficient is exactly 0 in
\* all three channels, the scale digit is '0', and for w = h = 1 the output has
\* exactly 6 characters.  (Stated for the images whose Bounds().Min is the
\* origin, where the accessor is passed the image's own pixels.)
C4_SolidHasZeroAC ==
    (pc = "done" /\ ValidCall /\ img.pat \in Solid /\ img.minX = 0 /\ img.minY = 0) =>
        /\ \A n \in 2..Len(factors) : factors[n] = ZeroFactor
        /\ Out(2) = Sym(0)
        /\ (w = 1 /\ h = 1) => Len(ret) = Len(args.dst) + 6

\* C4, amended: for a solid image every scaled AC coefficient is exactly 0 in
\* each channel whose sample is 0, the scale digit is '0' when the colour is
\* black, and for w = h = 1 the scale digit is '0' and the output has exactly 6
\* characters.
C4_SolidZeroChannels ==
    (pc = "done" /\ ValidCall /\ img.pat \in Solid) =>
        /\ \A n \in 2..Len(factors) :
              /\ SolidColor[1] = 0 => factors[n].r = 0
              /\ SolidColor[2] = 0 => factors[n].g = 0
              /\ SolidColor[3] = 0 => factors[n].b = 0
        /\ SolidColor = <<0, 0, 0>> => Out(2) = Sym(0)
        /\ (w = 1 /\ h = 1) => (Out(2) = Sym(0) /\ Len(ret) = Len(args.dst) + 6)

\* a solid orange image: the blue channel of every AC coefficient is 0, the red is not
C4_Witness ==
    /\ pc = "done" /\ ValidCall /\ img.pat = "orange" /\ w = 3 /\ h = 3 /\ imgW = 2
    /\ \A n \in 2..Len(factors) : factors[n].b = 0
    /\ factors[2].r # 0

\* C8: on a value v with 0 <= v < 83^N the N-digit packer appends exactly N
\* bytes, the alphabet symbols of the base-83 digits of v, most significant
\* first; the 83 symbols are pairwise distinct, so the bytes determine v.
C8_PackerDigits ==
    (pc = "packed") =>
        /\ ret # PANIC
        /\ Len(ret) = Len(args.dst) + args.n
        /\ SubSeq(ret, 1, Len(args.dst)) = args.dst
        /\ \A k \in 1..args.n :
              \E d \in 0..82 : d = DigitOf(args.v, args.n, k) /\ Out(k) = base83chars[d + 1]
        /\ Len(base83chars) = 83
        /\ Cardinality({base83chars[i] : i \in 1..83}) = 83
        /\ DecodeBase83(SubSeq(ret, Len(args.dst) + 1, Len(ret))) = args.v

C8_Witness ==
    /\ pc = "packed" /\ args.n = 4 /\ args.v = Pow83(4) - 1 /\ args.dst = <<126>>
    /\ ret = <<126, 126, 126, 126, 126>>

\* the identity pair <<sin, cos>> rotated n times by the increment (sinB, cosB)
RECURSIVE RotN(_, _, _)
RotN(n, sinB, cosB) ==
    IF n = 0 THEN <<0, ONE>>
    ELSE LET r == RotN(n - 1, sinB, cosB) IN rotate(r[1], r[2], sinB, cosB)

\* cos(pi * k * p / len), evaluated directly
DirectCos(k, p, len) == Sincos(FDiv(FMul(FMul(MathPi, FromInt(k)), FromInt(p)), FromInt(len)))[2]

\* a and b differ by no more than the rounding of n rotations and of the angle
Close(a, b, n) == AbsInt(a - b) <= 2 * n + 2

\* C9: when pixel (x, y) is accumulated, the pair of vertical index i is the
\* identity rotated by the per-row increment of i exactly y times (not at all for
\* i = 0), the pair of horizontal index j the identity rotated by the per-column
\* increment of j exactly x times (not at all for j = 0); the cosines stand for
\* those of the direct evaluation, and no pair has been rotated more than
\* imgH-1, respectively imgW-1, times since its last reset.
C9_Rotations ==
    (pc = "col") =>
        /\ \A i \in 1..h :
              LET n == IF i > 1 THEN y ELSE 0
                  inc == RotOf(piH, i - 1)
              IN  /\ yTurns[i] = n
                  /\ <<yRotSin[i], yRotCos[i]>> = inc
                  /\ <<ySin[i], yCos[i]>> = RotN(n, inc[1], inc[2])
                  /\ Close(yCos[i], DirectCos(i - 1, y, imgH), n)
                  /\ yTurns[i] <= imgH - 1
        /\ x >= 1 =>
              \A j \in 1..w :
                 LET n == IF j > 1 THEN x - 1 ELSE 0
                     inc == RotOf(piW, j - 1)
                 IN  /\ xTurns[j] = n
                     /\ <<xRotSin[j], xRotCos[j]>> = inc
                     /\ <<xSin[j], xCos[j]>> = RotN(n, inc[1], inc[2])
                     /\ Close(xCos[j], DirectCos(j - 1, x - 1, imgW), n)
                     /\ xTurns[j] <= imgW - 1

\* the last pixel of a row of a two-row image, with nine indices on each axis
C9_Witness ==
    /\ pc = "col" /\ w = 9 /\ h = 9 /\ imgW = 2 /\ x = 2 /\ y = 0
    /\ xTurns[9] = 1 /\ xCos[9] = ONE /\ xCos[2] = 0
=============================================================================
